---- MODULE Spec2Model ----
(***************************************************************************)
(* WebSocketManager of the VeroAI chat SDK (src/src/websocket.ts): the     *)
(* connection state machine, the reconnect scheduler, the heartbeat, the   *)
(* outbound queue and the inbound dispatcher, together with the browser    *)
(* WebSocket objects the manager creates and the connect() calls that are  *)
(* in flight.                                                              *)
(*                                                                         *)
(* Everything runs on one event loop.  One action of this module is one    *)
(* run-to-completion piece of code: a public method called by the host     *)
(* application, the continuation of connect() after its await, one socket  *)
(* callback (onopen, onerror, onclose, onmessage) or one timer callback.   *)
(***************************************************************************)
EXTENDS Integers, Sequences, FiniteSets, TLC

(***************************************************************************)
(* Bounds of the model.                                                    *)
(***************************************************************************)
MaxConn == 2        \* connect() calls that start an attempt (one socket each)
MaxFrames == 2      \* outbound frames built over a run
MaxAttempts == 3    \* largest configured maxReconnectAttempts

(***************************************************************************)
(* Program constants.                                                      *)
(***************************************************************************)
MaxDelay == 30000   \* "Max 30 seconds" cap of scheduleReconnect

Intervals == {100, 3000, 24000}    \* configured reconnectInterval values
Tokens == {"t1", "t2"}             \* credentials the provider can return

NoSocket == 0       \* this.ws === null
NoTimer == 0        \* this.reconnectTimer === null
Undefined == "undefined"

\* Delays are kept in units of 1/Scale ms so that interval * 1.5^(n-1) is an
\* integer for every n the counter can reach (1.5^k = 3^k / 2^k, which a
\* double holds exactly for these k).
RECURSIVE Pow(_, _)
Pow(b, e) == IF e = 0 THEN 1 ELSE b * Pow(b, e - 1)

Scale == Pow(2, MaxAttempts + 1)

Min(a, b) == IF a < b THEN a ELSE b

VARIABLES
    limits,            \* what the host application and the network do in this run
    config,            \* this.config: autoReconnect, reconnectInterval, maxReconnectAttempts
    state,             \* this.state
    ws,                \* this.ws: index of the socket held, or NoSocket
    reconnectAttempts, \* this.reconnectAttempts
    reconnectTimer,    \* this.reconnectTimer: NoTimer, or the delay it was armed with
    heartbeatTimer,    \* this.heartbeatTimer is set
    pendingMessages,   \* this.pendingMessages
    conn,              \* connect() calls that started an attempt, and their sockets
    wire,              \* every frame handed to WebSocket.send, in call order
    nextId,            \* number of the next outbound frame built
    emitted,           \* events emitted by the handler that ran last
    last,              \* the handler that ran last
    maxedOut           \* history: the counter has reached the maximum and the
                       \* host has not called connect() since

vars == <<limits, config, state, ws, reconnectAttempts, reconnectTimer, heartbeatTimer,
          pendingMessages, conn, wire, nextId, emitted, last, maxedOut>>

\* Records of conn: enough for the runs of every specification below.
ConnIds == 1..(IF MaxConn > MaxAttempts + 1 THEN MaxConn ELSE MaxAttempts + 1)

ConnectionState == {"disconnected", "connecting", "connected", "reconnecting"}

(***************************************************************************)
(* A WebSocket as the manager sees it.  phase is the life of the browser   *)
(* object: "connecting" after new WebSocket(url), "open" after the open    *)
(* event, "closing" after close() on an open socket, "aborting" after      *)
(* close() on a socket still connecting (the browser fails the connection  *)
(* and fires error, then close), "errored" after the error event of a      *)
(* failed connection (readyState is CLOSED, the close event is still       *)
(* owed), "aborted" the same for a socket the manager had called close()   *)
(* on, "closed" after the close event.  "none": not created.               *)
(***************************************************************************)
ReadyState(c) ==
    CASE conn[c].phase = "connecting" -> "CONNECTING"
      [] conn[c].phase = "open" -> "OPEN"
      [] conn[c].phase \in {"closing", "aborting"} -> "CLOSING"
      [] conn[c].phase \in {"errored", "aborted", "closed"} -> "CLOSED"
      [] OTHER -> "NONE"

NoConn == [pc |-> "none", origin |-> "none", phase |-> "none", token |-> Undefined,
           outcome |-> "none"]

Event(name, args) == [name |-> name, args |-> args]

IsConnected == state = "connected" /\ ws # NoSocket /\ ReadyState(ws) = "OPEN"

(***************************************************************************)
(* Outbound path.                                                          *)
(***************************************************************************)
\* JSON.stringify of one outbound frame: its number stands for the timestamp
\* and content that tell two frames apart; shape is "payload" for the
\* generic envelope and "conversationIds" for subscribe / unsubscribe.
Frame(type, shape) == [id |-> nextId, type |-> type, shape |-> shape]

Written(sock, frame, by) == [sock |-> sock, frame |-> frame, by |-> by]

\* flushPendingMessages taking the newest frame first (pop() for shift()).
RECURSIVE FlushLoopNewestFirst(_, _, _, _)
FlushLoopNewestFirst(queue, out, sock, open) ==
    IF Len(queue) > 0 /\ open
    THEN FlushLoopNewestFirst(SubSeq(queue, 1, Len(queue) - 1),
                              Append(out, Written(sock, queue[Len(queue)], "flush")),
                              sock, open)
    ELSE [queue |-> queue, out |-> out]

\* onopen without its flushPendingMessages call.
FlushLoopSkipped(queue, out, sock, open) == [queue |-> queue, out |-> out]

\* The loop of flushPendingMessages: shift() the head and send it while the
\* queue is non-empty and isConnected() holds.  open is isConnected() as
\* the loop sees it; nothing inside the loop changes it.
RECURSIVE FlushLoop(_, _, _, _)
FlushLoop(queue, out, sock, open) ==
    IF Len(queue) > 0 /\ open
    THEN FlushLoop(Tail(queue), Append(out, Written(sock, Head(queue), "flush")),
                   sock, open)
    ELSE [queue |-> queue, out |-> out]

\* The branch testing this.state alone.
RouteByState(frame) ==
    IF state = "connected"
    THEN /\ wire' = Append(wire, Written(ws, frame, "send"))
         /\ UNCHANGED pendingMessages
    ELSE /\ pendingMessages' = Append(pendingMessages, frame)
         /\ UNCHANGED wire

\* The branch shared by send, subscribeToConversations and
\* unsubscribeFromConversations: write when isConnected(), else queue.
Route(frame) ==
    IF IsConnected
    THEN /\ wire' = Append(wire, Written(ws, frame, "send"))
         /\ UNCHANGED pendingMessages
    ELSE /\ pendingMessages' = Append(pendingMessages, frame)
         /\ UNCHANGED wire

\* The handler that ran last: its name, the record of conn it ran for (0:
\* none), which way it went, and the inbound text it was given.
NoData == [json |-> "none", type |-> Undefined, payload |-> Undefined]
Ran(op, c, note) == [op |-> op, c |-> c, note |-> note, data |-> NoData]

SendFrame(op, type, shape) ==
    /\ nextId <= limits.frames
    /\ Route(Frame(type, shape))
    /\ nextId' = nextId + 1
    /\ emitted' = <<>>
    /\ last' = Ran(op, 0, IF IsConnected THEN "written" ELSE "queued")
    /\ UNCHANGED <<limits, config, state, ws, reconnectAttempts, reconnectTimer,
                   heartbeatTimer, conn, maxedOut>>

\* send(type, payload), called by the host directly or through
\* sendTypingStart, sendTypingStop, updatePresence or sendCallNotification,
\* which pass these types.
HelperTypes == {"typing:start", "typing:stop", "presence:update", "call"}

Send(type) == SendFrame("send", type, "payload")

SubscribeToConversations ==
    SendFrame("subscribeToConversations", "subscribe", "conversationIds")
UnsubscribeFromConversations ==
    SendFrame("unsubscribeFromConversations", "unsubscribe", "conversationIds")

(***************************************************************************)
(* Heartbeat.                                                              *)
(***************************************************************************)
\* The setInterval callback of startHeartbeat.
HeartbeatTick ==
    /\ heartbeatTimer
    /\ IF IsConnected
       THEN /\ nextId <= limits.frames
            /\ Route(Frame("ping", "payload"))
            /\ nextId' = nextId + 1
       ELSE UNCHANGED <<wire, pendingMessages, nextId>>
    /\ emitted' = <<>>
    /\ last' = Ran("heartbeat", 0, IF IsConnected THEN "written" ELSE "skipped")
    /\ UNCHANGED <<limits, config, state, ws, reconnectAttempts, reconnectTimer,
                   heartbeatTimer, conn, maxedOut>>

(***************************************************************************)
(* Reconnect scheduler.                                                    *)
(***************************************************************************)
\* A listener of the host registered for the event name throws when it is
\* called; emit() does not catch, so the exception leaves emit() at once.
Throws(name) == "throwing" \in DOMAIN limits /\ name \in limits.throwing

\* The delay with the exponent n for n - 1.
BackoffDelayOneAhead(interval, n) ==
    Min((interval * Pow(3, n) * Scale) \div Pow(2, n), MaxDelay * Scale)

\* Math.min(reconnectInterval * Math.pow(1.5, n - 1), 30000), in 1/Scale ms.
BackoffDelay(interval, n) ==
    Min((interval * Pow(3, n - 1) * Scale) \div Pow(2, n - 1), MaxDelay * Scale)

\* handleClose comparing the counter with <= for <.
HandleCloseOneMore ==
    LET arm == config.autoReconnect
               /\ reconnectAttempts <= config.maxReconnectAttempts
               /\ reconnectTimer = NoTimer
    IN  /\ heartbeatTimer' = FALSE
        /\ ws' = NoSocket
        /\ state' = IF arm THEN "reconnecting" ELSE "disconnected"
        /\ reconnectAttempts' = IF arm THEN reconnectAttempts + 1
                                ELSE reconnectAttempts
        /\ reconnectTimer' =
              IF arm THEN BackoffDelay(config.reconnectInterval, reconnectAttempts + 1)
              ELSE reconnectTimer
        /\ emitted' = IF state = "connected"
                      THEN <<Event("disconnected", <<"reason">>)>>
                      ELSE <<>>

\* scheduleReconnect without its reconnectAttempts++.
HandleCloseNoIncrement ==
    LET arm == config.autoReconnect
               /\ reconnectAttempts < config.maxReconnectAttempts
               /\ reconnectTimer = NoTimer
    IN  /\ heartbeatTimer' = FALSE
        /\ ws' = NoSocket
        /\ state' = IF arm THEN "reconnecting" ELSE "disconnected"
        /\ reconnectAttempts' = reconnectAttempts
        /\ reconnectTimer' =
              IF arm THEN BackoffDelay(config.reconnectInterval, reconnectAttempts + 1)
              ELSE reconnectTimer
        /\ emitted' = IF state = "connected"
                      THEN <<Event("disconnected", <<"reason">>)>>
                      ELSE <<>>

\* scheduleReconnect without its early return on a pending timer.
HandleCloseIgnoresPending ==
    LET arm == config.autoReconnect
               /\ reconnectAttempts < config.maxReconnectAttempts
    IN  /\ heartbeatTimer' = FALSE
        /\ ws' = NoSocket
        /\ state' = IF arm THEN "reconnecting" ELSE "disconnected"
        /\ reconnectAttempts' = IF arm THEN reconnectAttempts + 1
                                ELSE reconnectAttempts
        /\ reconnectTimer' =
              IF arm THEN BackoffDelay(config.reconnectInterval, reconnectAttempts + 1)
              ELSE reconnectTimer
        /\ emitted' = IF state = "connected"
                      THEN <<Event("disconnected", <<"reason">>)>>
                      ELSE <<>>

\* handleClose counting every closure, also one that schedules nothing.
HandleCloseCountsEveryClosure ==
    LET arm == config.autoReconnect
               /\ reconnectAttempts < config.maxReconnectAttempts
               /\ reconnectTimer = NoTimer
    IN  /\ heartbeatTimer' = FALSE
        /\ ws' = NoSocket
        /\ state' = IF arm THEN "reconnecting" ELSE "disconnected"
        /\ reconnectAttempts' = reconnectAttempts + 1
        /\ reconnectTimer' =
              IF arm THEN BackoffDelay(config.reconnectInterval, reconnectAttempts + 1)
              ELSE reconnectTimer
        /\ emitted' = IF state = "connected"
                      THEN <<Event("disconnected", <<"reason">>)>>
                      ELSE <<>>

\* handleClose without its call of scheduleReconnect.
HandleCloseNeverSchedules ==
    /\ heartbeatTimer' = FALSE
    /\ ws' = NoSocket
    /\ state' = "disconnected"
    /\ reconnectAttempts' = reconnectAttempts
    /\ reconnectTimer' = reconnectTimer
    /\ emitted' = IF state = "connected"
                  THEN <<Event("disconnected", <<"reason">>)>>
                  ELSE <<>>

\* handleClose, with scheduleReconnect inlined: the values of the fields
\* after the call.
HandleClose ==
    LET wasConnected == state = "connected"
        retry == config.autoReconnect
                 /\ reconnectAttempts < config.maxReconnectAttempts
        thrown == wasConnected /\ Throws("disconnected")
        arm == ~thrown /\ retry /\ reconnectTimer = NoTimer
    IN  /\ heartbeatTimer' = FALSE
        /\ ws' = NoSocket
        /\ state' = IF arm THEN "reconnecting" ELSE "disconnected"
        /\ reconnectAttempts' = IF arm THEN reconnectAttempts + 1
                                ELSE reconnectAttempts
        /\ reconnectTimer' =
              IF arm THEN BackoffDelay(config.reconnectInterval, reconnectAttempts + 1)
              ELSE reconnectTimer
        /\ emitted' = IF wasConnected THEN <<Event("disconnected", <<"reason">>)>>
                      ELSE <<>>

(***************************************************************************)
(* connect().                                                              *)
(***************************************************************************)
Used == {c \in ConnIds : conn[c].pc # "none"}

\* connect() whose guard tests only for 'connected'.
ConnectStartWhileConnecting(origin) ==
    IF state = "connected"
    THEN /\ UNCHANGED <<state, conn>>
         /\ last' = Ran(origin, 0, "noop")
    ELSE /\ Cardinality(Used) < limits.conns
         /\ LET c == Cardinality(Used) + 1
            IN  /\ conn' = [conn EXCEPT ![c] = [NoConn EXCEPT !.pc = "awaitToken",
                                                              !.origin = origin]]
                /\ last' = Ran(origin, c, "started")
         /\ state' = "connecting"

\* connect() up to its await: the guard, state = 'connecting' and the call
\* of the token provider.  A call that passes the guard takes the next
\* record of conn; one that does not returns at once.
ConnectStart(origin) ==
    IF state \in {"connecting", "connected"}
    THEN /\ UNCHANGED <<state, conn>>
         /\ last' = Ran(origin, 0, "noop")
    ELSE /\ Cardinality(Used) < limits.conns
         /\ origin = "connect" =>
               Cardinality({c \in Used : conn[c].origin = "connect"}) < limits.calls
         /\ LET c == Cardinality(Used) + 1
            IN  /\ conn' = [conn EXCEPT ![c] = [NoConn EXCEPT !.pc = "awaitToken",
                                                              !.origin = origin]]
                /\ last' = Ran(origin, c, "started")
         /\ state' = "connecting"

\* connect() called by the host application.
Connect ==
    /\ ConnectStart("connect")
    /\ emitted' = <<>>
    /\ maxedOut' = FALSE
    /\ UNCHANGED <<limits, config, ws, reconnectAttempts, reconnectTimer, heartbeatTimer,
                   pendingMessages, wire, nextId>>

\* The timer callback without its this.reconnectTimer = null.
ReconnectTimerFireKeepsMarker ==
    /\ reconnectTimer # NoTimer
    /\ reconnectTimer' = reconnectTimer
    /\ ConnectStart("timer")
    /\ emitted' = <<>>
    /\ UNCHANGED <<limits, config, ws, reconnectAttempts, heartbeatTimer,
                   pendingMessages, wire, nextId, maxedOut>>

\* The setTimeout callback of scheduleReconnect.
ReconnectTimerFire ==
    /\ reconnectTimer # NoTimer
    /\ reconnectTimer' = NoTimer
    /\ ConnectStart("timer")
    /\ emitted' = <<>>
    /\ UNCHANGED <<limits, config, ws, reconnectAttempts, heartbeatTimer,
                   pendingMessages, wire, nextId, maxedOut>>

\* connect() keeping the first credential it was given for later attempts.
TokenReturnedCached(c, token) ==
    /\ conn[c].pc = "awaitToken"
    /\ conn' = [conn EXCEPT ![c].pc = "awaitOpen", ![c].phase = "connecting",
                            ![c].token = IF c > 1 /\ conn[1].token # Undefined
                                         THEN conn[1].token ELSE token]
    /\ ws' = c
    /\ emitted' = <<>>
    /\ last' = Ran("token", c, token)
    /\ UNCHANGED <<limits, config, state, reconnectAttempts, reconnectTimer, heartbeatTimer,
                   pendingMessages, wire, nextId, maxedOut>>

\* The continuation of connect() when the provider yields a credential:
\* new WebSocket(url), with the credential as the token parameter of the
\* URL, and the four handlers.  The note of the step is the credential the
\* provider returned.
TokenReturned(c, token) ==
    /\ conn[c].pc = "awaitToken"
    /\ conn' = [conn EXCEPT ![c].pc = "awaitOpen", ![c].phase = "connecting",
                            ![c].token = token]
    /\ ws' = c
    /\ emitted' = <<>>
    /\ last' = Ran("token", c, token)
    /\ UNCHANGED <<limits, config, state, reconnectAttempts, reconnectTimer, heartbeatTimer,
                   pendingMessages, wire, nextId, maxedOut>>

\* The null branch without its state = 'disconnected'.
TokenMissingStaysConnecting(c) ==
    /\ conn[c].pc = "awaitToken"
    /\ conn' = [conn EXCEPT ![c].pc = "rejected",
                            ![c].outcome = "No authentication token available"]
    /\ emitted' = <<>>
    /\ last' = Ran("token", c, "null")
    /\ UNCHANGED <<limits, config, state, ws, reconnectAttempts, reconnectTimer,
                   heartbeatTimer, pendingMessages, wire, nextId, maxedOut>>

\* The continuation of connect() when the provider yields null.
TokenMissing(c) ==
    /\ conn[c].pc = "awaitToken"
    /\ state' = "disconnected"
    /\ conn' = [conn EXCEPT ![c].pc = "rejected",
                            ![c].outcome = "No authentication token available"]
    /\ emitted' = <<>>
    /\ last' = Ran("token", c, "null")
    /\ UNCHANGED <<limits, config, ws, reconnectAttempts, reconnectTimer, heartbeatTimer,
                   pendingMessages, wire, nextId, maxedOut>>

\* The provider throws or its promise rejects: the await rethrows and
\* connect() rejects with the provider's error.
TokenFailed(c) ==
    /\ conn[c].pc = "awaitToken"
    /\ conn' = [conn EXCEPT ![c].pc = "rejected", ![c].outcome = "provider error"]
    /\ emitted' = <<>>
    /\ last' = Ran("token", c, "throw")
    /\ UNCHANGED <<limits, config, state, ws, reconnectAttempts, reconnectTimer,
                   heartbeatTimer, pendingMessages, wire, nextId, maxedOut>>

(***************************************************************************)
(* Socket callbacks.                                                       *)
(***************************************************************************)
\* ws.onopen of socket c.
OnOpen(c) ==
    /\ conn[c].phase = "connecting"
    /\ state' = "connected"
    /\ reconnectAttempts' = 0
    /\ heartbeatTimer' = TRUE
    /\ LET open == ws # NoSocket /\ (ws = c \/ ReadyState(ws) = "OPEN")
           r == FlushLoop(pendingMessages, wire, ws, open)
       IN  /\ pendingMessages' = r.queue
           /\ wire' = r.out
    /\ emitted' = <<Event("connected", <<>>)>>
    /\ LET resolves == conn[c].pc = "awaitOpen" /\ ~Throws("connected")
       IN  conn' = [conn EXCEPT ![c].phase = "open",
                                ![c].pc = IF resolves THEN "resolved" ELSE @,
                                ![c].outcome = IF resolves THEN "open" ELSE @]
    /\ last' = Ran("open", c, IF Throws("connected") THEN "uncaught" ELSE "")
    /\ UNCHANGED <<limits, config, ws, reconnectTimer, nextId, maxedOut>>

\* ws.onerror of socket c: the connection failed.
OnError(c) ==
    /\ conn[c].phase \in {"connecting", "open", "closing", "aborting"}
    /\ emitted' = <<Event("error", <<"WebSocket error">>)>>
    /\ LET rejects == /\ state = "connecting" /\ conn[c].pc = "awaitOpen"
                      /\ ~Throws("error")
       IN  conn' = [conn EXCEPT ![c].phase = IF @ \in {"closing", "aborting"}
                                             THEN "aborted" ELSE "errored",
                                ![c].pc = IF rejects THEN "rejected" ELSE @,
                                ![c].outcome = IF rejects THEN "WebSocket error" ELSE @]
    /\ last' = Ran("error", c, IF Throws("error") THEN "uncaught"
                                ELSE IF state = "connecting" THEN "reject" ELSE "")
    /\ UNCHANGED <<limits, config, state, ws, reconnectAttempts, reconnectTimer,
                   heartbeatTimer, pendingMessages, wire, nextId, maxedOut>>

\* ws.onclose of socket c: after the error event of a failed connection, or
\* the clean end of an open or closing one.
OnClose(c) ==
    /\ conn[c].phase \in {"open", "closing", "errored", "aborted"}
    /\ HandleClose
    /\ conn' = [conn EXCEPT ![c].phase = "closed"]
    /\ last' = Ran("close", c, IF state = "connected" /\ Throws("disconnected")
                                THEN "uncaught" ELSE "")
    /\ maxedOut' = (maxedOut \/ reconnectAttempts' = config.maxReconnectAttempts)
    /\ UNCHANGED <<limits, config, pendingMessages, wire, nextId>>

(***************************************************************************)
(* Inbound dispatch.                                                       *)
(***************************************************************************)
\* What JSON.parse makes of an inbound text.  json is "invalid" (parse
\* throws), "null", "scalar" (a number or string) or "object"; type is the
\* object's type property and payload its payload property, Undefined
\* when the property is missing.
Data(json, type, payload) == [json |-> json, type |-> type, payload |-> payload]

\* The wire types ChatEvents declares a channel for.
WireTypes ==
    {"message:new", "message:updated", "message:deleted", "conversation:created",
     "conversation:updated", "participant:joined", "participant:left",
     "presence:updated", "typing:start", "typing:stop", "read:receipt",
     "call:ring", "call:accept", "call:reject", "call:end",
     "stream:start", "stream:chunk", "stream:end", "stream:error"}

\* An argument handed to a listener: the whole payload ("*") or one of its
\* properties.
Whole(payload) == [of |-> payload, prop |-> "*"]
Prop(payload, name) == [of |-> payload, prop |-> name]

Dropped == [emits |-> <<>>, caught |-> TRUE]
Ignored == [emits |-> <<>>, caught |-> FALSE]
Emits(name, args) == [emits |-> <<Event(name, args)>>, caught |-> Throws(name)]

\* handleMessage with a default case that publishes a type it does not know.
HandleMessageWithDefault(d) ==
    IF d.json = "object" /\ d.type # Undefined
    THEN Emits(d.type, <<Whole(d.payload)>>)
    ELSE Ignored

\* handleMessage: the events it emits, and whether its catch block ran.
\* Reading a property of an undefined payload throws inside the try.
HandleMessage(d) ==
    CASE d.json = "invalid" -> Dropped
      [] d.json = "null" -> Dropped
      [] d.json = "scalar" -> Ignored
      [] d.type \in {"message:new", "message:updated", "conversation:created",
                     "conversation:updated", "presence:updated", "typing:start",
                     "typing:stop", "read:receipt", "call:ring", "call:accept",
                     "call:reject", "call:end"} ->
            Emits(d.type, <<Whole(d.payload)>>)
      [] d.type = "message:deleted" ->
            IF d.payload = Undefined THEN Dropped
            ELSE Emits(d.type, <<Prop(d.payload, "messageId"),
                                 Prop(d.payload, "conversationId")>>)
      [] d.type = "participant:joined" ->
            IF d.payload = Undefined THEN Dropped
            ELSE Emits(d.type, <<Prop(d.payload, "conversationId"),
                                 Prop(d.payload, "participant")>>)
      [] d.type = "participant:left" ->
            IF d.payload = Undefined THEN Dropped
            ELSE Emits(d.type, <<Prop(d.payload, "conversationId"),
                                 Prop(d.payload, "userId")>>)
      [] OTHER -> Ignored

\* ws.onmessage of socket c.  Every implementation delivers the frames of
\* an open socket; some (the ws package) also deliver those that arrive
\* after close() until the closing handshake ends, so both are possible.
OnMessage(c, d) ==
    /\ conn[c].phase \in {"open", "closing"}
    /\ emitted' = HandleMessage(d).emits
    /\ last' = [op |-> "message", c |-> c, data |-> d,
                note |-> IF HandleMessage(d).caught THEN "caught" ELSE ""]
    /\ UNCHANGED <<limits, config, state, ws, reconnectAttempts, reconnectTimer,
                   heartbeatTimer, pendingMessages, conn, wire, nextId, maxedOut>>

(***************************************************************************)
(* disconnect().                                                           *)
(***************************************************************************)
\* WebSocket.close(): a connecting socket is failed, an open one starts the
\* closing handshake, a closing or closed one is left alone.
CloseCalled(phase) ==
    CASE phase = "connecting" -> "aborting"
      [] phase = "open" -> "closing"
      [] OTHER -> phase

\* disconnect() announcing 'disconnected' on every call.
DisconnectAnnounces ==
    /\ config' = [config EXCEPT !.autoReconnect = FALSE]
    /\ heartbeatTimer' = FALSE
    /\ reconnectTimer' = NoTimer
    /\ conn' = IF ws # NoSocket
               THEN [conn EXCEPT ![ws].phase = CloseCalled(@)]
               ELSE conn
    /\ ws' = NoSocket
    /\ state' = "disconnected"
    /\ emitted' = <<Event("disconnected", <<"Client disconnect">>)>>
    /\ last' = Ran("disconnect", 0, IF last.op = "disconnect" THEN "again" ELSE state)
    /\ UNCHANGED <<limits, reconnectAttempts, pendingMessages, wire, nextId, maxedOut>>

\* disconnect() without its clearTimers() call.
DisconnectKeepsTimers ==
    /\ config' = [config EXCEPT !.autoReconnect = FALSE]
    /\ conn' = IF ws # NoSocket
               THEN [conn EXCEPT ![ws].phase = CloseCalled(@)]
               ELSE conn
    /\ ws' = NoSocket
    /\ state' = "disconnected"
    /\ emitted' = <<>>
    /\ last' = Ran("disconnect", 0, IF last.op = "disconnect" THEN "again" ELSE state)
    /\ UNCHANGED <<limits, reconnectAttempts, reconnectTimer, heartbeatTimer,
                   pendingMessages, wire, nextId, maxedOut>>

\* disconnect() without its autoReconnect = false.
DisconnectKeepsAutoReconnect ==
    /\ heartbeatTimer' = FALSE
    /\ reconnectTimer' = NoTimer
    /\ conn' = IF ws # NoSocket
               THEN [conn EXCEPT ![ws].phase = CloseCalled(@)]
               ELSE conn
    /\ ws' = NoSocket
    /\ state' = "disconnected"
    /\ emitted' = <<>>
    /\ last' = Ran("disconnect", 0, IF last.op = "disconnect" THEN "again" ELSE state)
    /\ UNCHANGED <<limits, config, reconnectAttempts, pendingMessages, wire, nextId,
                   maxedOut>>

Disconnect ==
    /\ config' = [config EXCEPT !.autoReconnect = FALSE]
    /\ heartbeatTimer' = FALSE
    /\ reconnectTimer' = NoTimer
    /\ conn' = IF ws # NoSocket
               THEN [conn EXCEPT ![ws].phase = CloseCalled(@)]
               ELSE conn
    /\ ws' = NoSocket
    /\ state' = "disconnected"
    /\ emitted' = <<>>
    /\ last' = Ran("disconnect", 0, IF last.op = "disconnect" THEN "again" ELSE state)
    /\ UNCHANGED <<limits, reconnectAttempts, pendingMessages, wire, nextId, maxedOut>>

(***************************************************************************)
(* The specifications.  They share Next and differ in what the host        *)
(* application and the network do (limits) and in the configuration.       *)
(***************************************************************************)
\* Inbound texts: unparseable, JSON null, a JSON scalar, and objects with
\* every declared type, a type no channel exists for, or no type, each with
\* and without a payload.
Inbound ==
    {Data("invalid", Undefined, Undefined), Data("null", Undefined, Undefined),
     Data("scalar", Undefined, Undefined)}
    \cup {Data("object", t, p) : t \in WireTypes \cup {"unknown:future", Undefined},
                                 p \in {Undefined, "p1"}}

FewInbound ==
    {Data("invalid", Undefined, Undefined), Data("object", "message:new", "p1")}

Start(lim, configs) ==
    /\ limits = lim
    /\ config \in configs
    /\ state = "disconnected"
    /\ ws = NoSocket
    /\ reconnectAttempts = 0
    /\ reconnectTimer = NoTimer
    /\ heartbeatTimer = FALSE
    /\ pendingMessages = <<>>
    /\ conn = [c \in ConnIds |-> NoConn]
    /\ wire = <<>>
    /\ nextId = 1
    /\ emitted = <<>>
    /\ last = Ran("new", 0, "")
    /\ maxedOut = FALSE

\* Any interleaving of the host's calls with token, socket and timer events.
Init ==
    Start([conns |-> MaxConn, calls |-> MaxConn, frames |-> 1,
           types |-> HelperTypes, tokens |-> {"t1"}, inbound |-> FewInbound],
          [autoReconnect : BOOLEAN, reconnectInterval : {3000},
           maxReconnectAttempts : {1}])

\* The outbound queue: up to MaxFrames frames, each a send() envelope, a
\* subscribe, an unsubscribe or a ping, around two connections.
InitQueue ==
    Start([conns |-> 2, calls |-> 2, frames |-> MaxFrames,
           types |-> {"typing:start"}, tokens |-> {"t1"},
           inbound |-> {Data("object", "message:new", "p1")}],
          [autoReconnect : BOOLEAN, reconnectInterval : {3000},
           maxReconnectAttempts : {1}])

\* One connect() call followed by the retry chain, over every configuration.
InitRetry ==
    Start([conns |-> MaxAttempts + 1, calls |-> 1, frames |-> 1,
           types |-> {"presence:update"}, tokens |-> {"t1"},
           inbound |-> FewInbound],
          [autoReconnect : {TRUE}, reconnectInterval : Intervals,
           maxReconnectAttempts : 1..MaxAttempts])

\* The host calls connect() again after a disconnect() or after the one
\* scheduled retry has failed; the provider may return a different
\* credential each time it is called.
InitResume ==
    Start([conns |-> 3, calls |-> 2, frames |-> 1,
           types |-> {"presence:update"}, tokens |-> Tokens,
           inbound |-> FewInbound],
          [autoReconnect : {TRUE}, reconnectInterval : {3000},
           maxReconnectAttempts : {1}])

\* Every inbound text, on a short run.
InitDispatch ==
    Start([conns |-> 2, calls |-> 1, frames |-> 1,
           types |-> {"presence:update"}, tokens |-> {"t1"}, inbound |-> Inbound],
          [autoReconnect : {TRUE}, reconnectInterval : {3000},
           maxReconnectAttempts : {1}])

\* The host calls connect() while a reconnect is scheduled, with retries
\* left: closures arrive while the reconnect timer is pending.
InitOverlap ==
    Start([conns |-> 3, calls |-> 2, frames |-> 1,
           types |-> {"presence:update"}, tokens |-> {"t1"},
           inbound |-> FewInbound],
          [autoReconnect : {TRUE}, reconnectInterval : {3000},
           maxReconnectAttempts : {2}])

\* The event names ChatEvents declares: the channels of the typed emitter
\* that WebSocketManager and ChatClient both extend.
ChatEventNames == {"connected", "disconnected", "error"} \cup WireTypes

\* The names forwardWebSocketEvents registers a listener for.
Forwarded ==
    {"connected", "disconnected", "error", "message:new", "message:updated",
     "message:deleted", "conversation:created", "conversation:updated",
     "participant:joined", "participant:left", "presence:updated",
     "typing:start", "typing:stop", "read:receipt", "call:ring", "call:accept",
     "call:reject", "call:end"}

\* The number of arguments the forwarding listener of a name passes on.
Arity(name) ==
    CASE name = "connected" -> 0
      [] name \in {"message:deleted", "participant:joined", "participant:left"} -> 2
      [] OTHER -> 1

\* What the ChatClient emits for the events the manager has emitted: each
\* listener re-emits its event under the same name with the arguments it
\* declares; an event without a listener is re-emitted by nobody.
RECURSIVE ForwardWebSocketEvents(_)
ForwardWebSocketEvents(events) ==
    IF events = <<>> THEN <<>>
    ELSE LET e == Head(events)
             n == Min(Arity(e.name), Len(e.args))
         IN  (IF e.name \in Forwarded
              THEN <<Event(e.name, SubSeq(e.args, 1, n))>>
              ELSE <<>>)
             \o ForwardWebSocketEvents(Tail(events))

\* One emission of each declared name, with the arguments of its signature.
DeclaredEvents ==
    {Event(name, [i \in 1..Arity(name) |-> "arg"]) : name \in ChatEventNames}

\* emit(name, ...args) of the manager's typed emitter, for a declared event.
EmitDeclared(e) ==
    /\ emitted' = <<e>>
    /\ last' = Ran("emit", 0, e.name)
    /\ UNCHANGED <<limits, config, state, ws, reconnectAttempts, reconnectTimer,
                   heartbeatTimer, pendingMessages, conn, wire, nextId, maxedOut>>

\* One connect() call on a short run, for the properties of progress.
InitLive ==
    Start([conns |-> 2, calls |-> 1, frames |-> 1,
           types |-> {"presence:update"}, tokens |-> {"t1"},
           inbound |-> FewInbound],
          [autoReconnect : BOOLEAN, reconnectInterval : {3000},
           maxReconnectAttempts : {1}])

\* One connect() call and the retries that follow the closures of the
\* transport.
InitRecover ==
    Start([conns |-> 4, calls |-> 1, frames |-> 1,
           types |-> {"presence:update"}, tokens |-> {"t1"},
           inbound |-> FewInbound],
          [autoReconnect : {TRUE}, reconnectInterval : {3000},
           maxReconnectAttempts : {1, 2}])

\* The host's listeners for some of the events throw.
InitFaulty ==
    \E throwing \in SUBSET {"connected", "disconnected", "error", "message:new"} :
        Start([conns |-> 2, calls |-> 1, frames |-> 1,
               types |-> {"presence:update"}, tokens |-> {"t1"},
               inbound |-> FewInbound, throwing |-> throwing],
              [autoReconnect : {TRUE}, reconnectInterval : {3000},
               maxReconnectAttempts : {1}])

\* ChatClient: the host's ChatClientConfig names up to three sources of a
\* credential. A getter is named after the configuration field that holds
\* it; "token" is the closure () => config.token || null.
StaticToken == "t0"

ClientConfigs ==
    [token : {Undefined, StaticToken},
     getToken : {Undefined, "getToken"},
     getWsToken : {Undefined, "getWsToken"},
     autoReconnect : {Undefined, "false"},
     reconnectInterval : {3000},
     maxReconnectAttempts : {1}]

\* this.tokenGetter = config.getToken || (() => config.token || null)
TokenGetter(cc) ==
    IF cc.getToken # Undefined THEN cc.getToken ELSE "token"

\* The credentials a getter can resolve with; each host-supplied getter
\* returns a credential of its own, the closure returns the static token
\* when there is one (a null result is the step TokenMissing).
Answers(getter, cc) ==
    CASE getter = "getToken" -> {"t1"}
      [] getter = "getWsToken" -> {"t2"}
      [] getter = "token" -> {cc.token} \ {Undefined}

\* new WebSocketManager({ getToken: this.tokenGetter,
\*                        autoReconnect: config.autoReconnect ?? true, ... })
ManagerConfig(cc) ==
    [autoReconnect |-> IF cc.autoReconnect = Undefined THEN TRUE
                       ELSE cc.autoReconnect = "true",
     reconnectInterval |-> cc.reconnectInterval,
     maxReconnectAttempts |-> cc.maxReconnectAttempts]

\* A manager built by a ChatClient, over every ChatClientConfig: the
\* provider the manager calls is the getter the constructor handed to it.
InitClient ==
    \E cc \in ClientConfigs :
        Start([conns |-> 2, calls |-> 1, frames |-> 1,
               types |-> {"presence:update"},
               tokens |-> Answers(TokenGetter(cc), cc),
               inbound |-> FewInbound, client |-> cc],
              {ManagerConfig(cc)})

Next ==
    \/ Connect
    \/ Disconnect
    \/ \E type \in limits.types : Send(type)
    \/ SubscribeToConversations
    \/ UnsubscribeFromConversations
    \/ HeartbeatTick
    \/ ReconnectTimerFire
    \/ \E c \in ConnIds : \E token \in limits.tokens : TokenReturned(c, token)
    \/ \E c \in ConnIds : TokenMissing(c)
    \/ \E c \in ConnIds : TokenFailed(c)
    \/ \E c \in ConnIds : OnOpen(c)
    \/ \E c \in ConnIds : OnError(c)
    \/ \E c \in ConnIds : OnClose(c)
    \/ \E c \in ConnIds : \E d \in limits.inbound : OnMessage(c, d)

Spec == Init /\ [][Next]_vars
SpecQueue == InitQueue /\ [][Next]_vars
SpecRetry == InitRetry /\ [][Next]_vars
SpecResume == InitResume /\ [][Next]_vars
SpecDispatch == InitDispatch /\ [][Next]_vars
SpecOverlap == InitOverlap /\ [][Next]_vars

\* What the environment of the manager guarantees: the token provider
\* settles every call, a socket that is connecting opens or fails, a socket
\* that has failed or is closing delivers its close event, and an armed
\* timer fires.  The host is free to stop calling.
Progress ==
    /\ \A c \in ConnIds :
          /\ WF_vars(\/ \E token \in limits.tokens : TokenReturned(c, token)
                     \/ TokenMissing(c)
                     \/ TokenFailed(c))
          /\ WF_vars(\/ OnOpen(c)
                     \/ conn[c].phase \in {"connecting", "aborting"} /\ OnError(c))
          /\ WF_vars(conn[c].phase \in {"closing", "errored", "aborted"} /\ OnClose(c))
    /\ WF_vars(ReconnectTimerFire)

\* The manager with a ChatClient listening: every step of the manager, and
\* every emission its emitter is typed for.
NextForward ==
    \/ Next
    \/ \E e \in DeclaredEvents : EmitDeclared(e)

SpecForward == InitLive /\ [][NextForward]_vars

SpecLive == InitLive /\ [][Next]_vars /\ Progress

\* The manager in an environment that lets it recover: the host never calls
\* disconnect(), the token provider answers every call with a credential,
\* and the transport refuses a connection only while the attempt counter is
\* below the maximum, so that it accepts an attempt before the retries are
\* used up.
NextRecover ==
    \/ Connect
    \/ \E type \in limits.types : Send(type)
    \/ SubscribeToConversations
    \/ UnsubscribeFromConversations
    \/ HeartbeatTick
    \/ ReconnectTimerFire
    \/ \E c \in ConnIds : \E token \in limits.tokens : TokenReturned(c, token)
    \/ \E c \in ConnIds : OnOpen(c)
    \/ \E c \in ConnIds :
          /\ conn[c].phase = "connecting" =>
                reconnectAttempts < config.maxReconnectAttempts
          /\ OnError(c)
    \/ \E c \in ConnIds : OnClose(c)
    \/ \E c \in ConnIds : \E d \in limits.inbound : OnMessage(c, d)

\* Fair firing of the timer and of the socket events, and a provider that
\* answers.
ProgressRecover ==
    /\ \A c \in ConnIds :
          /\ WF_vars(\E token \in limits.tokens : TokenReturned(c, token))
          /\ WF_vars(OnOpen(c))
          /\ WF_vars(conn[c].phase = "errored" /\ OnClose(c))
    /\ WF_vars(ReconnectTimerFire)

SpecRecover == InitRecover /\ [][NextRecover]_vars /\ ProgressRecover
SpecClient == InitClient /\ [][Next]_vars
SpecFaulty == InitFaulty /\ [][Next]_vars

(***************************************************************************)
(* Helpers of the properties.                                              *)
(***************************************************************************)
Ids(frames) == [i \in DOMAIN frames |-> frames[i].id]
WireIds == [i \in DOMAIN wire |-> wire[i].frame.id]
Increasing(ids) == \A i, j \in DOMAIN ids : i < j => ids[i] < ids[j]
Range(f) == {f[i] : i \in DOMAIN f}

\* The step is the onopen callback of some socket.
OpenStep == \E c \in ConnIds : conn[c].phase = "connecting" /\ conn'[c].phase = "open"

\* The step is an outbound call of the host application: send, directly or
\* through one of its four helpers, subscribe or unsubscribe.
SendOps == {"send", "subscribeToConversations", "unsubscribeFromConversations"}
SendStep == nextId' = nextId + 1 /\ last'.op \in SendOps

C2_NoFrameOvertakesQueue ==
    /\ Increasing(WireIds \o Ids(pendingMessages))
    /\ IsConnected => pendingMessages = <<>>

\* A frame queued before the open was flushed, and a frame issued after the
\* open was written behind it.
C2_Witness ==
    /\ Len(wire) = 2
    /\ wire[1].by = "flush"
    /\ wire[2].by = "send"
    /\ wire[1].sock = wire[2].sock

(***************************************************************************)
(* C3.  disconnect() is idempotent: a disconnect() that directly follows   *)
(* a disconnect() changes no field of the manager and no socket, emits no  *)
(* event, and leaves the state Disconnected with neither timer armed.      *)
(***************************************************************************)
C3_DisconnectIdempotent ==
    [][ (last.op = "disconnect" /\ last'.op = "disconnect") =>
            /\ UNCHANGED <<config, state, ws, reconnectAttempts, reconnectTimer,
                           heartbeatTimer, pendingMessages, conn, wire>>
            /\ emitted = <<>> /\ emitted' = <<>>
            /\ state' = "disconnected"
            /\ ~heartbeatTimer'
            /\ reconnectTimer' = NoTimer
      ]_vars

\* disconnect() was called twice in a row on a manager that was connected
\* with an open socket.
C3_Witness ==
    /\ last.op = "disconnect"
    /\ last.note = "again"
    /\ \E c \in ConnIds : conn[c].phase = "closing"

(***************************************************************************)
(* C4.  Whatever the state disconnect() is called in, when it returns the  *)
(* state is Disconnected, neither timer is armed and the manager holds no  *)
(* socket.                                                                 *)
(***************************************************************************)
C4_DisconnectSettlesSynchronously ==
    last.op = "disconnect" =>
        /\ state = "disconnected"
        /\ ~heartbeatTimer
        /\ reconnectTimer = NoTimer
        /\ ws = NoSocket

\* disconnect() has returned from a call made in Reconnecting, where the
\* reconnect timer was armed.
C4_Witness ==
    /\ last.op = "disconnect"
    /\ last.note = "reconnecting"
    /\ reconnectAttempts > 0

(***************************************************************************)
(* C5.  When the provider yields null for a connect() of the host, that    *)
(* call rejects with the authentication error, the state is Disconnected,  *)
(* no socket is created or touched, the attempt counter keeps its value    *)
(* and the step arms no reconnect timer.                                   *)
(***************************************************************************)
C5_NullTokenRejectsConnect ==
    [][ (last'.op = "token" /\ last'.note = "null"
         /\ conn[last'.c].pc = "awaitToken"
         /\ conn[last'.c].origin = "connect") =>
            /\ conn'[last'.c].pc = "rejected"
            /\ conn'[last'.c].outcome = "No authentication token available"
            /\ state' = "disconnected"
            /\ \A c \in ConnIds : conn'[c].phase = conn[c].phase
            /\ ws' = ws
            /\ reconnectAttempts' = reconnectAttempts
            /\ reconnectTimer' = reconnectTimer
            /\ heartbeatTimer' = heartbeatTimer
      ]_vars

\* The host's connect() was rejected for want of a credential.
C5_Witness ==
    /\ last.op = "token"
    /\ last.note = "null"
    /\ conn[last.c].origin = "connect"
    /\ conn[last.c].pc = "rejected"
    /\ conn[last.c].phase = "none"
    /\ state = "disconnected"
    /\ reconnectTimer = NoTimer

\* The step is an onclose callback that finds auto-reconnect enabled and the
\* attempt counter at the configured maximum.
ExhaustedClose ==
    /\ last'.op = "close"
    /\ config.autoReconnect
    /\ reconnectAttempts >= config.maxReconnectAttempts

\* The step arms the reconnect timer.
ArmStep == reconnectTimer = NoTimer /\ reconnectTimer' # NoTimer

ErrorEvents(events) == {i \in DOMAIN events : events[i].name = "error"}

(***************************************************************************)
(* C6.  The closure that finds the retries exhausted settles the state at  *)
(* Disconnected and emits the terminal error event, exactly once.          *)
(***************************************************************************)
C6_TerminalErrorOnExhaustion ==
    [][ ExhaustedClose =>
            /\ state' = "disconnected"
            /\ Cardinality(ErrorEvents(emitted')) = 1
      ]_vars

(***************************************************************************)
(* C7, as claimed.  Once the attempt counter has reached the maximum, no   *)
(* closure arms the reconnect timer until the host calls connect().        *)
(***************************************************************************)
C7_NoTimerAfterMaxUntilConnect ==
    [][ maxedOut => ~(last'.op = "close" /\ ArmStep) ]_vars

(***************************************************************************)
(* C7, amended.  While the attempt counter is at the maximum no closure    *)
(* arms the reconnect timer: such a closure leaves the counter and the     *)
(* timer alone and the state Disconnected.  The counter leaves the maximum *)
(* only when a socket opens.                                               *)
(***************************************************************************)
C7_NoTimerWhileCounterAtMax ==
    [][ /\ (last'.op = "close"
            /\ reconnectAttempts >= config.maxReconnectAttempts) =>
               /\ reconnectTimer' = reconnectTimer
               /\ reconnectAttempts' = reconnectAttempts
               /\ state' = "disconnected"
        /\ (reconnectAttempts = config.maxReconnectAttempts
            /\ reconnectAttempts' # reconnectAttempts) =>
               (OpenStep /\ reconnectAttempts' = 0)
      ]_vars

\* Every scheduled attempt has failed: a closure found the counter at the
\* maximum and armed nothing.
C7_Witness ==
    /\ last.op = "close"
    /\ last.c = config.maxReconnectAttempts + 1
    /\ config.autoReconnect
    /\ reconnectAttempts = config.maxReconnectAttempts
    /\ reconnectTimer = NoTimer
    /\ state = "disconnected"

(***************************************************************************)
(* C8.  The timer armed for attempt n (the counter after its increment,    *)
(* 1 <= n <= max) has the delay min(interval * 1.5^(n-1), 30000) ms: the   *)
(* first is min(interval, 30000) and each next one is 1.5 times the one    *)
(* before, capped at 30000.  With interval 100 the delays are 100, 150,    *)
(* 225.  They never decrease with n, and a closure that finds the counter  *)
(* at the maximum arms nothing.                                            *)
(***************************************************************************)
RECURSIVE ExpectedDelay(_, _)
ExpectedDelay(interval, n) ==
    IF n = 1 THEN Min(interval * Scale, MaxDelay * Scale)
    ELSE Min((3 * ExpectedDelay(interval, n - 1)) \div 2, MaxDelay * Scale)

C8_BackoffDelays ==
    [][ /\ ArmStep =>
              /\ last'.op = "close"
              /\ reconnectAttempts' = reconnectAttempts + 1
              /\ reconnectAttempts' \in 1..config.maxReconnectAttempts
              /\ reconnectTimer' =
                    ExpectedDelay(config.reconnectInterval, reconnectAttempts')
              /\ reconnectTimer' <= MaxDelay * Scale
              /\ reconnectAttempts' > 1 =>
                    reconnectTimer' >=
                      ExpectedDelay(config.reconnectInterval, reconnectAttempts' - 1)
              /\ (config.reconnectInterval = 100 /\ reconnectAttempts' <= 3) =>
                    reconnectTimer' = <<100, 150, 225>>[reconnectAttempts'] * Scale
        /\ ExhaustedClose => reconnectTimer' = reconnectTimer
      ]_vars

\* Interval 100, maximum 3: the third consecutive closure has armed 225 ms.
C8_Witness ==
    /\ config.reconnectInterval = 100
    /\ config.maxReconnectAttempts = 3
    /\ last.op = "close"
    /\ last.c = 3
    /\ reconnectAttempts = 3
    /\ reconnectTimer = 225 * Scale

\* An inbound text that is not a frame: unparseable, not an object, or an
\* object without a type or without a payload.
Malformed(d) ==
    \/ d.json \in {"invalid", "null", "scalar"}
    \/ d.type = Undefined
    \/ d.payload = Undefined

\* A frame of the event taxonomy: an object with a declared type and a payload.
WellFormed(d) == d.json = "object" /\ d.type \in WireTypes /\ d.payload # Undefined

(***************************************************************************)
(* C9.  A malformed inbound frame is dropped: no event is emitted, and the *)
(* state, the socket, the timers, the counter and the queue stay as they   *)
(* are, the socket still delivering frames.                                *)
(***************************************************************************)
C9_MalformedFrameDropped ==
    [][ (last'.op = "message" /\ Malformed(last'.data)) =>
            /\ emitted' = <<>>
            /\ UNCHANGED <<config, state, ws, reconnectAttempts, reconnectTimer,
                           heartbeatTimer, pendingMessages, conn, wire>>
      ]_vars

(***************************************************************************)
(* C10.  A well-formed inbound frame of any type of the event taxonomy     *)
(* causes exactly one emission, on the channel named as the type, carrying *)
(* the frame's payload.                                                    *)
(***************************************************************************)
C10_EveryTaxonomyTypeDispatched ==
    [][ (last'.op = "message" /\ WellFormed(last'.data)) =>
            /\ Len(emitted') = 1
            /\ emitted'[1].name = last'.data.type
            /\ emitted'[1].args # <<>>
            /\ \A a \in Range(emitted'[1].args) : a.of = last'.data.payload
      ]_vars

\* An object whose type is a string no channel is declared for.
UnknownType(d) == d.json = "object" /\ d.type # Undefined /\ d.type \notin WireTypes

(***************************************************************************)
(* C11.  An inbound frame of a type outside the event taxonomy emits       *)
(* nothing, throws nothing inside handleMessage, and leaves the state, the *)
(* socket, the timers, the counter and the queue as they are.              *)
(***************************************************************************)
C11_UnknownTypeIgnored ==
    [][ (last'.op = "message" /\ UnknownType(last'.data)) =>
            /\ emitted' = <<>>
            /\ last'.note # "caught"
            /\ UNCHANGED <<config, state, ws, reconnectAttempts, reconnectTimer,
                           heartbeatTimer, pendingMessages, conn, wire>>
      ]_vars

\* A connected manager has been handed {"type":"unknown:future"}.
C11_Witness ==
    /\ last.op = "message"
    /\ last.data = Data("object", "unknown:future", Undefined)
    /\ emitted = <<>>
    /\ state = "connected"

(***************************************************************************)
(* C12.  connect() called by the host while the state is Connecting or     *)
(* Connected returns at once: no attempt is started (the token provider    *)
(* is not called, no socket is created) and the state, the socket held,    *)
(* the timers, the counter and the queue stay as they are.                 *)
(***************************************************************************)
C12_ConnectNoOpWhileConnectingOrConnected ==
    [][ (last'.op = "connect" /\ state \in {"connecting", "connected"}) =>
            /\ last'.note = "noop"
            /\ emitted' = <<>>
            /\ UNCHANGED <<config, state, ws, reconnectAttempts, reconnectTimer,
                           heartbeatTimer, pendingMessages, conn, wire>>
      ]_vars

\* connect() has returned at once while an earlier call was still waiting
\* for its token.
C12_Witness ==
    /\ last = Ran("connect", 0, "noop")
    /\ state = "connecting"
    /\ \E c \in ConnIds : conn[c].pc = "awaitToken"

\* The socket whose onopen callback the step is.
Opened == CHOOSE c \in ConnIds : conn[c].phase = "connecting" /\ conn'[c].phase = "open"

(***************************************************************************)
(* C13.  The onopen callback of a socket sets the state to Connected,      *)
(* resets the attempt counter to 0, arms the heartbeat timer, writes the   *)
(* whole outbound queue to the socket that opened, emits exactly one       *)
(* 'connected' event and resolves the connect() call that created the      *)
(* socket, all in that one step.                                           *)
(***************************************************************************)
C13_OpenStepCompletes ==
    [][ OpenStep =>
            /\ state' = "connected"
            /\ reconnectAttempts' = 0
            /\ heartbeatTimer'
            /\ pendingMessages' = <<>>
            /\ wire' = wire \o [i \in DOMAIN pendingMessages |->
                                   Written(Opened, pendingMessages[i], "flush")]
            /\ emitted' = <<Event("connected", <<>>)>>
            /\ conn[Opened].pc = "awaitOpen" => conn'[Opened].pc = "resolved"
      ]_vars

(***************************************************************************)
(* C14.  The onclose callback of a socket that disconnect() has closed     *)
(* leaves the state Disconnected, the attempt counter as it is and the     *)
(* reconnect timer unarmed.                                                *)
(***************************************************************************)
C14_NoReconnectAfterDisconnect ==
    [][ (last'.op = "close" /\ conn[last'.c].phase \in {"closing", "aborted"}) =>
            /\ state' = "disconnected"
            /\ reconnectAttempts' = reconnectAttempts
            /\ reconnectTimer = NoTimer
            /\ reconnectTimer' = NoTimer
      ]_vars

\* A manager configured with auto-reconnect (the socket came from the
\* reconnect timer) and with the counter below the maximum was disconnected
\* by the host while connected; the socket's closure has been processed.
C14_Witness ==
    /\ last.op = "close"
    /\ conn[last.c].origin = "timer"
    /\ conn[last.c].pc = "resolved"
    /\ ~config.autoReconnect
    /\ reconnectAttempts < config.maxReconnectAttempts
    /\ emitted = <<>>
    /\ state = "disconnected"
    /\ reconnectTimer = NoTimer

(***************************************************************************)
(* C15.  A socket closure that finds auto-reconnect enabled, the attempt   *)
(* counter below the maximum and no reconnect timer pending sets the state *)
(* to Reconnecting, adds one to the counter and arms the reconnect timer.  *)
(* One that finds auto-reconnect disabled or the counter at the maximum    *)
(* settles the state at Disconnected and leaves counter and timer alone.   *)
(***************************************************************************)
C15_ClosureSchedulesOrSettles ==
    [][ last'.op = "close" =>
            /\ (/\ config.autoReconnect
                /\ reconnectAttempts < config.maxReconnectAttempts
                /\ reconnectTimer = NoTimer) =>
                   /\ state' = "reconnecting"
                   /\ reconnectAttempts' = reconnectAttempts + 1
                   /\ reconnectTimer' # NoTimer
            /\ (\/ ~config.autoReconnect
                \/ reconnectAttempts >= config.maxReconnectAttempts) =>
                   /\ state' = "disconnected"
                   /\ reconnectAttempts' = reconnectAttempts
                   /\ reconnectTimer' = reconnectTimer
      ]_vars

\* The second failure in a row has been scheduled for a third attempt.
C15_Witness ==
    /\ last.op = "close"
    /\ last.c = 2
    /\ config.autoReconnect
    /\ config.maxReconnectAttempts = 3
    /\ state = "reconnecting"
    /\ reconnectAttempts = 2
    /\ reconnectTimer # NoTimer

(***************************************************************************)
(* C16.  disconnect() discards the outbound queue: when it has returned    *)
(* the queue is empty, so that no frame queued before it can be written by *)
(* a later connection.                                                     *)
(***************************************************************************)
C16_DisconnectDiscardsQueue ==
    last.op = "disconnect" => pendingMessages = <<>>

\* The step is a connect() of the host that starts an attempt.
ConnectCall == last'.op = "connect" /\ last'.note = "started"

(***************************************************************************)
(* C17.  In a manager configured with auto-reconnect, a connect() made     *)
(* after a disconnect() (the flag is off when it is called) switches       *)
(* auto-reconnect on again, so that a later closure by the transport is    *)
(* followed by a scheduled reconnect.                                      *)
(***************************************************************************)
C17_ConnectReenablesAutoReconnect ==
    [][ (ConnectCall /\ ~config.autoReconnect) => config'.autoReconnect ]_vars

(***************************************************************************)
(* C18.  A connect() of the host that follows the closure which exhausted  *)
(* the retries resets the attempt counter to 0 at the call.                *)
(***************************************************************************)
C18_ConnectResetsCounter ==
    [][ (/\ ConnectCall
         /\ last.op = "close"
         /\ config.autoReconnect
         /\ reconnectAttempts = config.maxReconnectAttempts
         /\ reconnectTimer = NoTimer
         /\ state = "disconnected") =>
            reconnectAttempts' = 0
      ]_vars

\* Attempts whose call of the token provider has not been answered.
Awaiting == {c \in ConnIds : conn[c].pc = "awaitToken"}

\* Sockets that have been created.
Sockets == {c \in ConnIds : conn[c].phase # "none"}

(***************************************************************************)
(* C19.  Every entry into Connecting, by connect() or by the reconnect     *)
(* timer, starts one attempt with one call of the token provider, and      *)
(* attempts start in no other way.  The provider's answer to an attempt    *)
(* ends its wait; a socket is created only by the answer that carries a    *)
(* credential, for that attempt alone, with exactly that credential, and   *)
(* the credential of a socket never changes.                               *)
(***************************************************************************)
C19_FreshTokenPerAttempt ==
    [][ /\ (state # "connecting" /\ state' = "connecting") =>
              /\ last'.op \in {"connect", "timer"}
              /\ Cardinality(Used') = Cardinality(Used) + 1
              /\ Awaiting' = Awaiting \cup (Used' \ Used)
        /\ Used' # Used => (state # "connecting" /\ state' = "connecting")
        /\ last'.op = "token" =>
              /\ last'.c \in Awaiting
              /\ Awaiting' = Awaiting \ {last'.c}
              /\ \A c \in ConnIds \ {last'.c} : conn'[c] = conn[c]
              /\ IF last'.note \in Tokens
                 THEN /\ Sockets' = Sockets \cup {last'.c}
                      /\ last'.c \notin Sockets
                      /\ conn'[last'.c].token = last'.note
                 ELSE Sockets' = Sockets
        /\ last'.op # "token" =>
              /\ Sockets' = Sockets
              /\ Awaiting \subseteq Awaiting'
        /\ \A c \in Sockets : conn'[c].token = conn[c].token
      ]_vars

\* The socket of the first attempt carried one credential; the timer-driven
\* second attempt called the provider again and its socket carries the
\* other credential it was given.
C19_Witness ==
    /\ last = Ran("token", 2, "t2")
    /\ conn[1].token = "t1"
    /\ conn[2].token = "t2"
    /\ conn[2].origin = "timer"
    /\ conn[2].phase = "connecting"

(***************************************************************************)
(* C20.  At most one socket created by the manager is connecting or open.  *)
(***************************************************************************)
C20_OneConnectionAtATime ==
    Cardinality({c \in ConnIds : conn[c].phase \in {"connecting", "open"}}) <= 1

\* Frames of the heartbeat.
Pings(frames) == {i \in DOMAIN frames : frames[i].type = "ping"}

(***************************************************************************)
(* C21.  The heartbeat runs only while Connected: an armed heartbeat timer *)
(* implies state = Connected, no ping is ever in the outbound queue, and a *)
(* ping is written only by a step that starts in Connected, to the socket  *)
(* the manager holds, which is open.                                       *)
(***************************************************************************)
C21_HeartbeatOnlyWhileConnected ==
    /\ [](heartbeatTimer => state = "connected")
    /\ [](Pings(pendingMessages) = {})
    /\ [][ \A i \in DOMAIN wire' :
              (i \notin DOMAIN wire /\ wire'[i].frame.type = "ping") =>
                 /\ state = "connected"
                 /\ wire'[i].sock = ws
                 /\ conn[ws].phase = "open"
       ]_vars

(***************************************************************************)
(* C22.  The heartbeat timer and the reconnect timer are never both armed. *)
(***************************************************************************)
C22_TimersNeverBothArmed ==
    ~(heartbeatTimer /\ reconnectTimer # NoTimer)

(***************************************************************************)
(* C23.  Whenever the token provider yields no credential for an attempt,  *)
(* started by the host or by the reconnect timer, the host is told: the    *)
(* connect() it called is rejected, or an 'error' event is emitted; and    *)
(* the step arms no reconnect timer.                                       *)
(***************************************************************************)
C23_MissingTokenSurfaced ==
    [][ (last'.op = "token" /\ last'.note = "null") =>
            /\ \/ /\ conn[last'.c].origin = "connect"
                  /\ conn'[last'.c].pc = "rejected"
               \/ ErrorEvents(emitted') # {}
            /\ ~ArmStep
      ]_vars

\* The outbound call of the step wrote its frame to the socket held and
\* queued nothing.
WrittenNow ==
    /\ Len(wire') = Len(wire) + 1
    /\ wire' = Append(wire, Written(ws, wire'[Len(wire')].frame, "send"))
    /\ wire'[Len(wire')].frame.id = nextId
    /\ pendingMessages' = pendingMessages

\* The outbound call of the step appended its frame to the queue and wrote
\* nothing.
QueuedNow ==
    /\ Len(pendingMessages') = Len(pendingMessages) + 1
    /\ pendingMessages' = Append(pendingMessages, pendingMessages'[Len(pendingMessages')])
    /\ pendingMessages'[Len(pendingMessages')].id = nextId
    /\ wire' = wire

(***************************************************************************)
(* C24, as claimed.  Routing depends on the state alone: an outbound call  *)
(* made in Connected writes its frame at once and queues nothing, one made *)
(* in any other state queues its frame and writes nothing.                 *)
(***************************************************************************)
C24_RoutingByStateAlone ==
    [][ SendStep => IF state = "connected" THEN WrittenNow ELSE QueuedNow ]_vars

(***************************************************************************)
(* C24, amended.  Routing depends on isConnected(): an outbound call made  *)
(* in Connected while the socket held is open writes its frame to that     *)
(* socket at once and queues nothing; one made in any other state, or in   *)
(* Connected while the manager holds no open socket, queues its frame and  *)
(* writes nothing.                                                        *)
(***************************************************************************)
C24_RoutingByIsConnected ==
    [][ SendStep =>
          IF state = "connected" /\ ws # NoSocket /\ conn[ws].phase = "open"
          THEN WrittenNow /\ conn'[ws].phase = "open"
          ELSE QueuedNow
      ]_vars

\* The transport has reported an error on the open socket and its closure
\* is still to come: the state is Connected and the call was queued.
C24_Witness ==
    /\ last.op \in SendOps
    /\ last.note = "queued"
    /\ state = "connected"
    /\ ws # NoSocket
    /\ conn[ws].phase = "errored"
    /\ Len(pendingMessages) = 1
    /\ wire = <<>>

\* C25: a ChatClient configured with getWsToken obtains the credential of
\* every connection attempt from getWsToken; without getWsToken the
\* credential comes from getToken, and without either from the static token.
PreferredGetter(cc) ==
    IF cc.getWsToken # Undefined THEN cc.getWsToken
    ELSE IF cc.getToken # Undefined THEN cc.getToken
    ELSE "token"

C25_WsTokenPreferred ==
    \A c \in ConnIds :
        conn[c].token # Undefined =>
            conn[c].token \in Answers(PreferredGetter(limits.client), limits.client)

\* C26: at most one reconnect timer is pending: the timer is armed only by
\* a step that finds none pending, and a closure that arrives while a timer
\* is pending leaves the timer and the attempt counter as they were.
C26_ClosureWhilePendingIgnored ==
    [][ /\ (reconnectTimer' # NoTimer /\ reconnectTimer' # reconnectTimer) =>
              reconnectTimer = NoTimer
        /\ (last'.op = "close" /\ reconnectTimer # NoTimer) =>
              /\ reconnectTimer' = reconnectTimer
              /\ reconnectAttempts' = reconnectAttempts ]_vars

\* A closure found the timer pending with retries left, and armed nothing.
C26_Witness ==
    /\ last.op = "close"
    /\ reconnectTimer # NoTimer
    /\ reconnectAttempts = 1
    /\ reconnectAttempts < config.maxReconnectAttempts
    /\ config.autoReconnect
    /\ state = "disconnected"

\* C27: the reconnect timer's callback clears the pending marker before it
\* runs connect(): when the socket of the attempt it started closes with
\* auto-reconnect enabled and the counter below the maximum, the closure
\* finds no timer pending, arms the next one and adds one to the counter.
TimerAttempts == {c \in ConnIds : conn[c].origin = "timer"}

C27_TimerFireClearsMarker ==
    [][ /\ last'.op = "timer" => reconnectTimer' = NoTimer
        /\ \A c \in TimerAttempts :
              (/\ last'.op = "close" /\ last'.c = c
               /\ config.autoReconnect
               /\ reconnectAttempts < config.maxReconnectAttempts) =>
                  /\ reconnectTimer = NoTimer
                  /\ reconnectTimer' # NoTimer
                  /\ reconnectAttempts' = reconnectAttempts + 1
                  /\ state' = "reconnecting" ]_vars

\* The socket of the first timer-driven attempt failed with an error and
\* then closed; the closure armed the timer of the second.
C27_Witness ==
    /\ last.op = "close"
    /\ last.c = 2
    /\ conn[2].origin = "timer"
    /\ conn[2].pc = "rejected"
    /\ config.maxReconnectAttempts = 3
    /\ reconnectAttempts = 2
    /\ reconnectTimer = BackoffDelay(config.reconnectInterval, 2)
    /\ state = "reconnecting"

\* C28: every connect() call that starts an attempt gets a definite outcome:
\* its promise is eventually resolved or rejected, also when disconnect() is
\* called while the attempt is in flight.
C28_ConnectSettles ==
    \A c \in ConnIds :
        (conn[c].pc \in {"awaitToken", "awaitOpen"})
            ~> (conn[c].pc \in {"resolved", "rejected"})

\* C29: disconnect() is final until the host calls connect() again.  In a
\* manager configured with auto-reconnect the flag is off only after a
\* disconnect(); from then on, while the state is Disconnected, every step
\* that is not a connect() of the host leaves the state Disconnected, the
\* manager without a socket and without a reconnect timer, and emits no
\* 'connected' event, also when the step is the answer to a token fetch that
\* an earlier connect() left in flight.
C29_DisconnectIsFinal ==
    [][ (/\ ~config.autoReconnect
         /\ state = "disconnected"
         /\ ~ConnectCall) =>
            /\ state' = "disconnected"
            /\ ws' = NoSocket
            /\ reconnectTimer' = NoTimer
            /\ \A i \in DOMAIN emitted' : emitted'[i].name # "connected" ]_vars

\* A socket that disconnect() has closed and after which a later attempt
\* has been started.
Superseded(c) ==
    /\ conn[c].phase \in {"closing", "aborted"}
    /\ \E d \in ConnIds : d > c /\ conn[d].pc # "none"

\* C30: the close event of a superseded socket has no effect on the current
\* connection: it leaves the state, the manager's socket handle and the
\* heartbeat as they are and arms no reconnect timer; and whenever the state
\* is Connected the manager holds a socket.
C30_StaleCloseIgnored ==
    /\ [][ \A c \in ConnIds :
              (Superseded(c) /\ last'.op = "close" /\ last'.c = c) =>
                  /\ state' = state
                  /\ ws' = ws
                  /\ heartbeatTimer' = heartbeatTimer
                  /\ ~ArmStep ]_vars
    /\ [](state = "connected" => ws # NoSocket)

\* C31: when the token provider throws or rejects during an attempt, the
\* manager does not remain in Connecting: the step that delivers the failure
\* leaves the state Disconnected, the state in which connect() starts a new
\* attempt.
C31_ProviderFailureSettles ==
    [][ (last'.op = "token" /\ last'.note = "throw") => state' = "disconnected" ]_vars

\* C32: recovery.  After a closure by the transport while Connected, with
\* auto-reconnect enabled, no disconnect(), a provider that always returns a
\* credential and a transport that accepts an attempt before the maximum is
\* reached, the manager eventually is Connected again and has emitted
\* 'connected'.  The closures counted are those that leave room for the
\* retries within the run.
C32_Recovery ==
    (/\ last.op = "close"
     /\ emitted = <<Event("disconnected", <<"reason">>)>>
     /\ Cardinality(Used) + config.maxReconnectAttempts <= limits.conns)
        ~> (/\ last.op = "open"
            /\ state = "connected"
            /\ emitted = <<Event("connected", <<>>)>>)

\* The connection was closed by the transport, the first retry was refused
\* and the second has opened.
C32_Witness ==
    /\ config.maxReconnectAttempts = 2
    /\ conn[1].outcome = "open"
    /\ conn[1].phase = "closed"
    /\ conn[2].origin = "timer"
    /\ conn[2].pc = "rejected"
    /\ conn[3].origin = "timer"
    /\ last.op = "open"
    /\ last.c = 3
    /\ state = "connected"
    /\ emitted = <<Event("connected", <<>>)>>

\* The events of one name among those a step has emitted.
EventsNamed(events, name) == {i \in DOMAIN events : events[i].name = name}

\* C33: 'connected' and 'disconnected' alternate, starting with 'connected':
\* every step that leaves the Connected state emits exactly one
\* 'disconnected', 'disconnected' is emitted by no other step, and
\* 'connected' is emitted only by a step that enters Connected from another
\* state.
C33_EventsMirrorState ==
    [][ /\ (state = "connected" /\ state' # "connected") =>
              Cardinality(EventsNamed(emitted', "disconnected")) = 1
        /\ EventsNamed(emitted', "disconnected") # {} =>
              (state = "connected" /\ state' # "connected")
        /\ EventsNamed(emitted', "connected") # {} =>
              /\ state # "connected" /\ state' = "connected"
              /\ Cardinality(EventsNamed(emitted', "connected")) = 1 ]_vars

\* C34: inbound frames are dispatched only while the state is Connected and
\* only from the socket the manager holds, one emission per frame in the
\* step of its arrival; after disconnect() no message event is emitted until
\* the next 'connected'.  Stated for the frames of sockets that are open,
\* which every WebSocket implementation delivers.
C34_DispatchOnlyWhileConnected ==
    [][ (last'.op = "message" /\ conn[last'.c].phase = "open") =>
            /\ Len(emitted') <= 1
            /\ emitted' # <<>> =>
                  /\ state = "connected"
                  /\ ws = last'.c
                  /\ emitted' = HandleMessage(last'.data).emits ]_vars

\* C35: the attempt counter stays within 0..maxReconnectAttempts; it changes
\* only by +1, in a closure that arms the reconnect timer, and by the reset
\* to 0 of a socket's open.
C35_CounterBounded ==
    /\ [](reconnectAttempts \in 0..config.maxReconnectAttempts)
    /\ [][ reconnectAttempts' # reconnectAttempts =>
              \/ /\ last'.op = "close"
                 /\ ArmStep
                 /\ reconnectAttempts' = reconnectAttempts + 1
              \/ /\ OpenStep
                 /\ last'.op = "open"
                 /\ reconnectAttempts' = 0 ]_vars

\* The counter went up to the maximum, closure by closure, and the open of
\* the last retry has reset it.
C35_Witness ==
    /\ config.maxReconnectAttempts = 3
    /\ maxedOut
    /\ last.op = "open"
    /\ last.c = 4
    /\ conn[4].origin = "timer"
    /\ reconnectAttempts = 0

\* C36: the ChatClient forwards every event of the manager: for each name
\* in ChatEvents, the stream events included, what the manager emits in a
\* step the ChatClient emits too, once, with the same name and arguments.
C36_EveryEventForwarded ==
    ForwardWebSocketEvents(emitted) = emitted

\* C37: no fault escapes a socket or timer callback: no callback ends with
\* an uncaught exception, also when a listener throws, and each callback
\* completes its updates: the open of the socket a connect() is waiting for
\* resolves that connect(), and a closure that finds auto-reconnect enabled,
\* the counter below the maximum and no timer pending arms the timer.
C37_CallbacksCaptureFaults ==
    [][ /\ last'.note # "uncaught"
        /\ \A c \in ConnIds :
              (/\ conn[c].phase = "connecting" /\ conn'[c].phase = "open"
               /\ conn[c].pc = "awaitOpen") => conn'[c].pc = "resolved"
        /\ (/\ last'.op = "close"
            /\ config.autoReconnect
            /\ reconnectAttempts < config.maxReconnectAttempts
            /\ reconnectTimer = NoTimer) => ArmStep ]_vars

====
